---- MODULE Spec2Model ----
(***************************************************************************)
(* Media catalog data model (app/models.py): the validation shapes built   *)
(* on SQLModel with table=False, and the persisted tables they feed.       *)
(*                                                                         *)
(* Encoding.                                                               *)
(*   - A string is a sequence of characters; Len is its length.            *)
(*   - A Decimal is an integer number of tenths: Decimal(12, 5) is 12.5.   *)
(*   - Keyword arguments are a record over the shape's field names; each   *)
(*     entry is <<>> (argument not supplied) or <<v>> (supplied value v).  *)
(*     Arguments are well typed: type coercion errors are not modelled.    *)
(*   - A value of an Optional[T] field is <<>> (None) or <<v>>.            *)
(***************************************************************************)
EXTENDS Integers, Sequences, FiniteSets

VARIABLES
    shape,              \* name of the shape last constructed ("" before any)
    input,              \* the keyword arguments of that construction
    result,             \* its outcome: [ok, errors, value]
    outcome,            \* what the storage layer did with it
    playback_session,   \* one stored row of playback_sessions
    user_preferences,   \* rows of user_preferences, in insertion order
    playlist_items      \* rows of playlist_items, in insertion order

vars == <<shape, input, result, outcome, playback_session, user_preferences,
          playlist_items>>

(***************************************************************************)
(* Bounds of the model.                                                    *)
(***************************************************************************)
\* Inputs are taken within Margin steps on either side of every boundary.
Margin == 1
\* Largest number of rows a table of the model holds.
MaxRows == 3

(***************************************************************************)
(* Values.                                                                 *)
(***************************************************************************)
\* decimal.Decimal, in tenths.
Decimal(units, tenths) == units * 10 + tenths

\* A string of n characters.
Str(n) == [i \in 1..n |-> "a"]

\* The values within Margin steps of b.
Near(b) == (b - Margin)..(b + Margin)

\* Supplied or not.
Maybe(S) == {<<>>} \cup {<<v>> : v \in S}

(***************************************************************************)
(* sqlmodel.Field: the declaration of one field.                           *)
(*   required   no default: the argument must be supplied                  *)
(*   optional   annotated Optional[T]                                      *)
(*   default    <<d>> when a non-None default d is declared                *)
(*   max_length, ge, le, gt   <<bound>> when the constraint is declared    *)
(***************************************************************************)
Required ==
    [required |-> TRUE, optional |-> FALSE, default |-> <<>>,
     max_length |-> <<>>, ge |-> <<>>, le |-> <<>>, gt |-> <<>>]

Default(d) == [Required EXCEPT !.required = FALSE, !.default = <<d>>]

OptionalNone == [Required EXCEPT !.required = FALSE, !.optional = TRUE]

MaxLength(f, n) == [f EXCEPT !.max_length = <<n>>]
Ge(f, b) == [f EXCEPT !.ge = <<b>>]
Le(f, b) == [f EXCEPT !.le = <<b>>]
Gt(f, b) == [f EXCEPT !.gt = <<b>>]

(***************************************************************************)
(* Construction of a table=False shape: every declared constraint is       *)
(* checked against the supplied arguments, all failures are collected, and *)
(* the record is built only when there is none.                            *)
(***************************************************************************)
Supplied(kw, n) == kw[n] # <<>>

ValidationErrors(fields, kw) ==
    {<<n, "missing">> : n \in {m \in DOMAIN fields :
        fields[m].required /\ ~Supplied(kw, m)}}
    \cup
    {<<n, "string_too_long">> : n \in {m \in DOMAIN fields :
        /\ Supplied(kw, m)
        /\ fields[m].max_length # <<>>
        /\ Len(kw[m][1]) > fields[m].max_length[1]}}
    \cup
    {<<n, "greater_than_equal">> : n \in {m \in DOMAIN fields :
        /\ Supplied(kw, m)
        /\ fields[m].ge # <<>>
        /\ ~(kw[m][1] >= fields[m].ge[1])}}
    \cup
    {<<n, "less_than_equal">> : n \in {m \in DOMAIN fields :
        /\ Supplied(kw, m)
        /\ fields[m].le # <<>>
        /\ ~(kw[m][1] <= fields[m].le[1])}}
    \cup
    {<<n, "greater_than">> : n \in {m \in DOMAIN fields :
        /\ Supplied(kw, m)
        /\ fields[m].gt # <<>>
        /\ ~(kw[m][1] > fields[m].gt[1])}}

\* The value a field gets in the constructed record: the argument when one
\* is supplied, the declared default otherwise (None when it is None).
FieldValue(f, arg) ==
    IF f.optional
    THEN (IF arg # <<>> THEN arg ELSE f.default)
    ELSE (IF arg # <<>> THEN arg[1] ELSE f.default[1])

Construct(fields, kw) ==
    LET errors == ValidationErrors(fields, kw) IN
    IF errors = {}
    THEN [ok |-> TRUE, errors |-> {},
          value |-> [n \in DOMAIN fields |-> FieldValue(fields[n], kw[n])]]
    ELSE [ok |-> FALSE, errors |-> errors, value |-> <<>>]

HasError(r, n) == \E e \in r.errors : e[1] = n

(***************************************************************************)
(* PlaybackSessionUpdate                                                   *)
(***************************************************************************)
PlaybackSessionUpdate_current_position == OptionalNone
\* Mutant: the upper bound is left out.
PlaybackSessionUpdate_volume_level_NoLe == Ge(OptionalNone, Decimal(0, 0))
\* Mutant: an omitted volume_level falls back to full volume, not to None.
PlaybackSessionUpdate_volume_level_DefaultFull ==
    [Le(Ge(OptionalNone, Decimal(0, 0)), Decimal(100, 0))
        EXCEPT !.default = <<Decimal(100, 0)>>]
PlaybackSessionUpdate_volume_level ==
    Le(Ge(OptionalNone, Decimal(0, 0)), Decimal(100, 0))
\* Mutant: ge in place of gt, so that 0 is accepted.
PlaybackSessionUpdate_playback_speed_Ge == Ge(OptionalNone, Decimal(0, 0))
PlaybackSessionUpdate_playback_speed == Gt(OptionalNone, Decimal(0, 0))
PlaybackSessionUpdate_is_muted == OptionalNone
PlaybackSessionUpdate_is_fullscreen == OptionalNone

PlaybackSessionUpdate ==
    [current_position |-> PlaybackSessionUpdate_current_position,
     volume_level     |-> PlaybackSessionUpdate_volume_level,
     playback_speed   |-> PlaybackSessionUpdate_playback_speed,
     is_muted         |-> PlaybackSessionUpdate_is_muted,
     is_fullscreen    |-> PlaybackSessionUpdate_is_fullscreen]

PlaybackSessionUpdateInputs ==
    [current_position : Maybe({Decimal(0, 0), Decimal(12, 5)}),
     volume_level     : Maybe(Near(Decimal(0, 0)) \cup Near(Decimal(100, 0))),
     playback_speed   : Maybe(Near(Decimal(0, 0)) \cup {Decimal(1, 0)}),
     is_muted         : Maybe(BOOLEAN),
     is_fullscreen    : Maybe(BOOLEAN)]

(***************************************************************************)
(* VideoSearchParams                                                       *)
(***************************************************************************)
\* Mutant: the bound one too high.
VideoSearchParams_limit_OffByOne == Le(Default(50), 1001)
VideoSearchParams_limit == Le(Default(50), 1000)
VideoSearchParams_offset == Ge(Default(0), 0)

VideoSearchParams ==
    [title        |-> OptionalNone,
     format       |-> OptionalNone,
     min_duration |-> OptionalNone,
     max_duration |-> OptionalNone,
     tags         |-> OptionalNone,
     limit        |-> VideoSearchParams_limit,
     offset       |-> VideoSearchParams_offset]

VideoSearchParamsInputs ==
    [title        : Maybe({Str(3)}),
     format       : Maybe({Str(3)}),
     min_duration : Maybe({Decimal(0, 0)}),
     max_duration : Maybe({Decimal(-1, 0)}),
     tags         : Maybe({<<>>, <<Str(3)>>}),
     limit        : Maybe(Near(0) \cup Near(50) \cup Near(1000)),
     offset       : Maybe(Near(0))]

(***************************************************************************)
(* VideoCreate                                                             *)
(***************************************************************************)
\* Mutant: the bound one too high.
VideoCreate_title_OffByOne == MaxLength(Required, 256)
VideoCreate_title == MaxLength(Required, 255)
VideoCreate_file_path == MaxLength(Required, 500)
VideoCreate_file_size == Required
VideoCreate_duration == Default(Decimal(0, 0))
VideoCreate_format == MaxLength(Required, 50)

VideoCreate ==
    [title          |-> VideoCreate_title,
     description    |-> MaxLength(Default(Str(0)), 2000),
     file_path      |-> VideoCreate_file_path,
     file_size      |-> VideoCreate_file_size,
     duration       |-> VideoCreate_duration,
     width          |-> OptionalNone,
     height         |-> OptionalNone,
     frame_rate     |-> OptionalNone,
     format         |-> VideoCreate_format,
     codec          |-> MaxLength(OptionalNone, 50),
     thumbnail_path |-> MaxLength(OptionalNone, 500)]

VideoCreateInputs ==
    [title          : Maybe({Str(0)} \cup {Str(n) : n \in Near(255)}),
     description    : Maybe({Str(3)}),
     file_path      : Maybe({Str(0), Str(8)} \cup {Str(n) : n \in Near(500)}),
     file_size      : Maybe({0, 1024}),
     duration       : Maybe({Decimal(-1, 0), Decimal(0, 0), Decimal(12, 5)}),
     width          : Maybe({1920}),
     height         : Maybe({1080}),
     frame_rate     : Maybe({Decimal(30, 0)}),
     format         : Maybe({Str(0), Str(3)} \cup {Str(n) : n \in Near(50)}),
     codec          : Maybe({Str(4)}),
     thumbnail_path : Maybe({Str(8)})]

(***************************************************************************)
(* PlaylistItemCreate                                                      *)
(***************************************************************************)
PlaylistItemCreate_playlist_id == Required
PlaylistItemCreate_video_id == Required
\* Mutant: position given a default.
PlaylistItemCreate_position_Default == Default(0)
PlaylistItemCreate_position == Required

PlaylistItemCreate ==
    [playlist_id |-> PlaylistItemCreate_playlist_id,
     video_id    |-> PlaylistItemCreate_video_id,
     position    |-> PlaylistItemCreate_position]

PlaylistItemCreateInputs ==
    [playlist_id : Maybe(Near(1)),
     video_id    : Maybe(Near(1)),
     position    : Maybe(Near(0))]

(***************************************************************************)
(* UserPreferenceCreate                                                    *)
(***************************************************************************)
UserPreferenceCreate ==
    [preference_key   |-> MaxLength(Required, 100),
     preference_value |-> MaxLength(Required, 500),
     data_type        |-> MaxLength(Required, 20),
     description      |-> MaxLength(Default(Str(0)), 200)]

UserPreferenceCreateInputs ==
    [preference_key   : Maybe({Str(0)} \cup {Str(n) : n \in Near(100)}),
     preference_value : Maybe({Str(2)}),
     data_type        : Maybe({Str(3)} \cup {Str(n) : n \in Near(20)}),
     description      : Maybe({Str(5)})]

(***************************************************************************)
(* Construction of one shape from one set of keyword arguments.  The       *)
(* arguments are drawn in the initial state; the action constructs.        *)
(***************************************************************************)
NoResult == [ok |-> FALSE, errors |-> {}, value |-> <<>>]

NoTables ==
    /\ playback_session = <<>>
    /\ user_preferences = <<>>
    /\ playlist_items = <<>>

Init ==
    /\ \/ shape = "PlaybackSessionUpdate" /\ input \in PlaybackSessionUpdateInputs
       \/ shape = "VideoSearchParams" /\ input \in VideoSearchParamsInputs
       \/ shape = "VideoCreate" /\ input \in VideoCreateInputs
       \/ shape = "PlaylistItemCreate" /\ input \in PlaylistItemCreateInputs
       \/ shape = "UserPreferenceCreate" /\ input \in UserPreferenceCreateInputs
    /\ result = NoResult
    /\ outcome = "none"
    /\ NoTables

Constructs(fields) ==
    /\ outcome = "none"
    /\ result' = Construct(fields, input)
    /\ outcome' = "constructed"
    /\ UNCHANGED <<shape, input, playback_session, user_preferences, playlist_items>>

ConstructPlaybackSessionUpdate ==
    /\ shape = "PlaybackSessionUpdate"
    /\ Constructs(PlaybackSessionUpdate)

ConstructVideoSearchParams ==
    /\ shape = "VideoSearchParams"
    /\ Constructs(VideoSearchParams)

ConstructVideoCreate ==
    /\ shape = "VideoCreate"
    /\ Constructs(VideoCreate)

ConstructPlaylistItemCreate ==
    /\ shape = "PlaylistItemCreate"
    /\ Constructs(PlaylistItemCreate)

ConstructUserPreferenceCreate ==
    /\ shape = "UserPreferenceCreate"
    /\ Constructs(UserPreferenceCreate)

Next ==
    \/ ConstructPlaybackSessionUpdate
    \/ ConstructVideoSearchParams
    \/ ConstructVideoCreate
    \/ ConstructPlaylistItemCreate
    \/ ConstructUserPreferenceCreate

Spec == Init /\ [][Next]_vars

Constructed(name) == shape = name /\ outcome = "constructed"

(***************************************************************************)
(* PlaybackSession: one stored row, and the application of a validated     *)
(* PlaybackSessionUpdate to it.                                            *)
(***************************************************************************)
\* The row PlaybackSession(video_id=v) holds: every other column at its
\* declared default (last_played_at: the time of creation).
PlaybackSession(v, now) ==
    [id               |-> 1,
     video_id         |-> v,
     current_position |-> Decimal(0, 0),
     volume_level     |-> Decimal(100, 0),
     playback_speed   |-> Decimal(1, 0),
     is_muted         |-> FALSE,
     is_fullscreen    |-> FALSE,
     last_played_at   |-> now,
     total_watch_time |-> Decimal(0, 0),
     watch_count      |-> 1]

\* Rows the table may hold when an update arrives.
StoredSessions ==
    {PlaybackSession(1, 0),
     [PlaybackSession(2, 1) EXCEPT !.watch_count = 2,
                                   !.total_watch_time = Decimal(60, 0)]}

SessionUpdateInputs ==
    [current_position : Maybe({Decimal(12, 5)}),
     volume_level     : Maybe({Decimal(40, 0), Decimal(100, 1)}),
     playback_speed   : Maybe({Decimal(0, 0), Decimal(1, 5)}),
     is_muted         : Maybe({TRUE}),
     is_fullscreen    : Maybe({TRUE})]

\* Merge-patch: a field the update holds a value for overwrites the column
\* of the same name; every other column keeps its value.
ApplyUpdate(row, update) ==
    [f \in DOMAIN row |->
        IF f \in DOMAIN update /\ update[f] # <<>>
        THEN update[f][1]
        ELSE row[f]]

SessionInit ==
    /\ shape = ""
    /\ input = <<>>
    /\ result = NoResult
    /\ outcome = "none"
    /\ playback_session \in StoredSessions
    /\ user_preferences = <<>>
    /\ playlist_items = <<>>

UpdatePlaybackSession ==
    \E kw \in SessionUpdateInputs :
        LET r == Construct(PlaybackSessionUpdate, kw) IN
        /\ shape' = "PlaybackSessionUpdate"
        /\ input' = kw
        /\ result' = r
        /\ IF r.ok
           THEN /\ playback_session' = ApplyUpdate(playback_session, r.value)
                /\ outcome' = "updated"
           ELSE /\ playback_session' = playback_session
                /\ outcome' = "validation_error"
        /\ UNCHANGED <<user_preferences, playlist_items>>

SessionNext == UpdatePlaybackSession

SessionSpec == SessionInit /\ [][SessionNext]_vars

(***************************************************************************)
(* UserPreference: the user_preferences table.  created_at and updated_at  *)
(* are not modelled.                                                       *)
(***************************************************************************)
\* Mutant: the column declared without unique=True.
UserPreference_preference_key_unique_Not == FALSE
\* preference_key is declared unique=True.
UserPreference_preference_key_unique == TRUE

PreferenceKeys == {Str(n) : n \in 1..MaxRows}

PreferenceInputs ==
    [preference_key   : Maybe(PreferenceKeys),
     preference_value : Maybe({Str(1), Str(2)}),
     data_type        : Maybe({Str(3)}),
     description      : Maybe({Str(0)})]

KeyStored(rows, key) == \E i \in DOMAIN rows : rows[i].preference_key = key

\* The row inserted for a validated UserPreferenceCreate.
UserPreference(rows, data) ==
    [id               |-> Len(rows) + 1,
     preference_key   |-> data.preference_key,
     preference_value |-> data.preference_value,
     data_type        |-> data.data_type,
     description      |-> data.description]

PreferenceInit ==
    /\ shape = ""
    /\ input = <<>>
    /\ result = NoResult
    /\ outcome = "none"
    /\ NoTables

CreateUserPreference ==
    \E kw \in PreferenceInputs :
        LET r == Construct(UserPreferenceCreate, kw) IN
        /\ shape' = "UserPreferenceCreate"
        /\ input' = kw
        /\ result' = r
        /\ IF ~r.ok
           THEN /\ outcome' = "validation_error"
                /\ user_preferences' = user_preferences
           ELSE IF /\ UserPreference_preference_key_unique
                   /\ KeyStored(user_preferences, r.value.preference_key)
           THEN /\ outcome' = "integrity_error"
                /\ user_preferences' = user_preferences
           ELSE /\ Len(user_preferences) < MaxRows
                /\ outcome' = "stored"
                /\ user_preferences' =
                      Append(user_preferences, UserPreference(user_preferences, r.value))
        /\ UNCHANGED <<playback_session, playlist_items>>

PreferenceNext == CreateUserPreference

PreferenceSpec == PreferenceInit /\ [][PreferenceNext]_vars

(***************************************************************************)
(* PlaylistItem: the playlist_items table.  The columns carry two foreign  *)
(* keys and no unique constraint.  added_at is not modelled.               *)
(***************************************************************************)
\* The ids of the rows of playlists and of videos.
PlaylistIds == 1..2
VideoIds == 1..2

PlaylistItemInputs ==
    [playlist_id : Maybe(0..2),
     video_id    : Maybe(0..2),
     position    : Maybe(0..1)]

\* The row inserted for a validated PlaylistItemCreate.
PlaylistItem(rows, data) ==
    [id          |-> Len(rows) + 1,
     playlist_id |-> data.playlist_id,
     video_id    |-> data.video_id,
     position    |-> data.position]

PlaylistInit ==
    /\ shape = ""
    /\ input = <<>>
    /\ result = NoResult
    /\ outcome = "none"
    /\ NoTables

AddPlaylistItem ==
    \E kw \in PlaylistItemInputs :
        LET r == Construct(PlaylistItemCreate, kw) IN
        /\ shape' = "PlaylistItemCreate"
        /\ input' = kw
        /\ result' = r
        /\ IF ~r.ok
           THEN /\ outcome' = "validation_error"
                /\ playlist_items' = playlist_items
           ELSE IF r.value.playlist_id \notin PlaylistIds \/ r.value.video_id \notin VideoIds
           THEN /\ outcome' = "integrity_error"
                /\ playlist_items' = playlist_items
           ELSE /\ Len(playlist_items) < MaxRows
                /\ outcome' = "stored"
                /\ playlist_items' = Append(playlist_items, PlaylistItem(playlist_items, r.value))
        /\ UNCHANGED <<playback_session, user_preferences>>

PlaylistNext == AddPlaylistItem

PlaylistSpec == PlaylistInit /\ [][PlaylistNext]_vars

(***************************************************************************)
(* Properties of construction, checked under Spec.                         *)
(***************************************************************************)
ArgOk(n, lo, hi) ==
    input[n] = <<>> \/ (lo <= input[n][1] /\ input[n][1] <= hi)

SpeedArgOk == input.playback_speed = <<>> \/ input.playback_speed[1] > 0

\* C1: a PlaybackSessionUpdate with a volume_level is constructed only if
\* 0 <= volume_level <= 100; a value below 0 or above 100 is rejected with
\* an error on volume_level; 0, 100, every value between and an omitted
\* volume_level raise no error on that field, and the record is built
\* (holding that value, None when omitted) when playback_speed is valid too.
C1_VolumeLevelRange ==
    Constructed("PlaybackSessionUpdate") =>
        LET inRange == ArgOk("volume_level", Decimal(0, 0), Decimal(100, 0)) IN
        /\ result.ok => inRange
        /\ ~inRange => ~result.ok /\ HasError(result, "volume_level")
        /\ inRange => ~HasError(result, "volume_level")
        /\ (inRange /\ SpeedArgOk) =>
              result.ok /\ result.value.volume_level = input.volume_level

\* Witness of C1: volume_level 100.1 was rejected for exceeding the bound.
C1_Witness ==
    /\ Constructed("PlaybackSessionUpdate")
    /\ input.volume_level = <<Decimal(100, 1)>>
    /\ result.errors = {<<"volume_level", "less_than_equal">>}

\* C2: a PlaybackSessionUpdate with a playback_speed is accepted exactly
\* when the speed is strictly positive (the other fields being valid): 0
\* and negative values are rejected with an error on playback_speed, and an
\* omitted playback_speed is accepted.
C2_PlaybackSpeedPositive ==
    Constructed("PlaybackSessionUpdate") =>
        /\ HasError(result, "playback_speed") <=> ~SpeedArgOk
        /\ ArgOk("volume_level", Decimal(0, 0), Decimal(100, 0)) =>
              /\ result.ok <=> SpeedArgOk
              /\ result.ok => result.value.playback_speed = input.playback_speed

\* Witness of C2: playback_speed 0 was rejected.
C2_Witness ==
    /\ Constructed("PlaybackSessionUpdate")
    /\ input.playback_speed = <<Decimal(0, 0)>>
    /\ result.errors = {<<"playback_speed", "greater_than">>}

\* C3: VideoSearchParams is constructed exactly when limit <= 1000 and
\* offset >= 0 (an omitted argument counting as its default); the record
\* holds the supplied limit and offset, and 50 and 0 where they are omitted.
C3_SearchParamsBounds ==
    Constructed("VideoSearchParams") =>
        LET limitOk == input.limit = <<>> \/ input.limit[1] <= 1000
            offsetOk == input.offset = <<>> \/ input.offset[1] >= 0
        IN
        /\ result.ok <=> (limitOk /\ offsetOk)
        /\ HasError(result, "limit") <=> ~limitOk
        /\ HasError(result, "offset") <=> ~offsetOk
        /\ result.ok =>
              /\ result.value.limit =
                    (IF input.limit = <<>> THEN 50 ELSE input.limit[1])
              /\ result.value.offset =
                    (IF input.offset = <<>> THEN 0 ELSE input.offset[1])

\* Witness of C3: limit 1000 with the offset omitted was accepted, and the
\* record holds offset 0.
C3_Witness ==
    /\ Constructed("VideoSearchParams")
    /\ input.limit = <<1000>>
    /\ input.offset = <<>>
    /\ result.ok
    /\ result.value.offset = 0

\* The other arguments of a VideoCreate raise no error.
VideoCreateOthersValid == \A e \in result.errors : e[1] = "title"

\* C4: a VideoCreate whose other fields are valid is rejected with an error
\* on title when the title is longer than 255 characters, and constructed
\* when the title has 255 characters or fewer.
C4_TitleMaxLength ==
    (Constructed("VideoCreate") /\ input.title # <<>>) =>
        /\ Len(input.title[1]) > 255 =>
              ~result.ok /\ <<"title", "string_too_long">> \in result.errors
        /\ Len(input.title[1]) <= 255 => ~HasError(result, "title")
        /\ (Len(input.title[1]) <= 255 /\ VideoCreateOthersValid) =>
              result.ok /\ result.value.title = input.title[1]

\* Witness of C4: a title of exactly 255 characters was accepted.
C4_Witness ==
    /\ Constructed("VideoCreate")
    /\ input.title # <<>>
    /\ Len(input.title[1]) = 255
    /\ result.ok

\* C5: constructing a VideoCreate requires non-empty file_path, file_size
\* and format: an input in which one of the three is missing, or in which
\* file_path or format is the empty string, is rejected.
C5_RequiresNonEmpty ==
    Constructed("VideoCreate") =>
        ((\/ input.file_path = <<>>
          \/ input.file_size = <<>>
          \/ input.format = <<>>
          \/ input.file_path = <<Str(0)>>
          \/ input.format = <<Str(0)>>) => ~result.ok)

\* C6: every constructed VideoCreate has duration >= 0 (0 when omitted), so
\* an input with a negative duration is rejected.
C6_DurationNonNegative ==
    (Constructed("VideoCreate") /\ result.ok) =>
        /\ result.value.duration >= 0
        /\ input.duration = <<>> => result.value.duration = 0

\* C7: a PlaylistItemCreate is constructed only when playlist_id, video_id
\* and position are all supplied, and then holds the supplied values; an
\* input missing one of them is rejected with a "missing" error on that
\* field, no default being substituted.
C7_PlaylistItemRequired ==
    Constructed("PlaylistItemCreate") =>
        /\ result.ok <=> \A n \in DOMAIN input : input[n] # <<>>
        /\ \A n \in DOMAIN input :
              input[n] = <<>> <=> <<n, "missing">> \in result.errors
        /\ result.ok => \A n \in DOMAIN input : result.value[n] = input[n][1]

\* Witness of C7: an input with both ids and no position was rejected.
C7_Witness ==
    /\ Constructed("PlaylistItemCreate")
    /\ input.playlist_id # <<>>
    /\ input.video_id # <<>>
    /\ input.position = <<>>
    /\ result.errors = {<<"position", "missing">>}

(***************************************************************************)
(* Properties of the stored rows.                                          *)
(***************************************************************************)
\* C8 (under SessionSpec): applying a PlaybackSessionUpdate is a merge-patch.
\* In every step that applies an update, each field the update was given
\* takes the given value, each field absent from it keeps its stored value
\* (it is not reset to its default), and the columns outside the update
\* shape (id, video_id, watch_count, total_watch_time, last_played_at) keep
\* theirs; a rejected update changes nothing.
C8_MergePatch ==
    [][/\ outcome' = "updated" =>
            \A f \in DOMAIN playback_session :
                playback_session'[f] =
                    (IF f \in DOMAIN input' /\ input'[f] # <<>>
                     THEN input'[f][1]
                     ELSE playback_session[f])
       /\ outcome' = "validation_error" => playback_session' = playback_session
      ]_vars

\* Witness of C8: an update that gave is_muted and no volume_level was
\* applied to a row whose volume_level is 40, not the default 100.
C8_Witness ==
    /\ outcome = "updated"
    /\ input.volume_level = <<>>
    /\ input.is_muted = <<TRUE>>
    /\ playback_session.is_muted
    /\ playback_session.volume_level = Decimal(40, 0)

UniquePreferenceKeys ==
    \A i, j \in DOMAIN user_preferences :
        i # j => user_preferences[i].preference_key # user_preferences[j].preference_key

\* C9 (under PreferenceSpec): no two stored UserPreference rows ever have the
\* same preference_key; a creation whose key is already stored raises no
\* validation error on preference_key, leaves the rows unchanged and, when
\* the shape accepts it, is refused by the storage layer.
C9_UniquePreferenceKey ==
    /\ []UniquePreferenceKeys
    /\ [][(/\ input' # <<>>
           /\ input'.preference_key # <<>>
           /\ KeyStored(user_preferences, input'.preference_key[1])) =>
              /\ ~HasError(result', "preference_key")
              /\ user_preferences' = user_preferences
              /\ result'.ok => outcome' = "integrity_error"
         ]_vars

\* Witness of C9: a creation the shape accepted was refused by the storage
\* layer, its key being stored already.
C9_Witness ==
    /\ outcome = "integrity_error"
    /\ result.ok
    /\ KeyStored(user_preferences, result.value.preference_key)

PositionsOf(p) ==
    {playlist_items[i].position :
        i \in {k \in DOMAIN playlist_items : playlist_items[k].playlist_id = p}}

\* C10 (under PlaylistSpec): after any sequence of additions, within each
\* playlist no two items share a position and the positions have no gap.
C10_PositionsUniqueContiguous ==
    \A p \in PlaylistIds :
        /\ \A i, j \in DOMAIN playlist_items :
              (/\ i # j
               /\ playlist_items[i].playlist_id = p
               /\ playlist_items[j].playlist_id = p) =>
                  playlist_items[i].position # playlist_items[j].position
        /\ \A a, b \in PositionsOf(p) :
              \A c \in a..b : c \in PositionsOf(p)

====
